---- MODULE Spec2Model ----
(***************************************************************************)
(* cmsutil (src/main.rs): one run of the command-line tool that resolves   *)
(* certificates from a store, acquires a private key for the signer        *)
(* (encode) or the recipient (decode), and signs+encrypts or               *)
(* decrypts+verifies a message.  The run is modelled as a sequential       *)
(* program: pc is the position in main(), one action per statement group.  *)
(* Option<T> values are modelled as sequences: <<>> is None, <<x>> is      *)
(* Some(x).  Strings are sequences of characters.                          *)
(***************************************************************************)
EXTENDS Integers, Sequences, FiniteSets, TLC

\* Largest number of certificates the store enumerates.
MaxCerts == 2
\* Largest number of recipient queries on the encode command line.
MaxRcpts == 2

VARIABLES
    args,        \* AppParams after parsing
    certs,       \* the store's content, in enumeration order
    pc,          \* position in main()
    storeState,  \* "unopened", "open", "closed"
    opens,       \* number of times a store handle was opened
    closes,      \* number of times a store handle was released
    candidates,  \* signers (encode) / recipients (decode): Vec<CertContext>
    idx,         \* position of find_map's iterator in candidates
    attempts,    \* log of acquire_key calls
    found,       \* Option<CertContext> returned by get_cert_with_key
    recipients,  \* encode: the accumulated recipient Vec<CertContext>
    rcptIdx,     \* encode: position of the for loop over cmd.recipients
    key,         \* Option<key handle> bound by `let key = ...key().unwrap()`
    pinCalls,    \* log of set_pin calls
    pipeline,    \* log of sign_and_encrypt / decrypt_and_verify calls
    data,        \* Option<bytes> returned by the pipeline operation
    writes,      \* log of writes to the output file / stdout
    live,        \* ids of the CertContext handles currently alive
    result       \* outcome of main()

vars == <<args, certs, pc, storeState, opens, closes, candidates, idx, attempts,
          found, recipients, rcptIdx, key, pinCalls, pipeline, data, writes,
          live, result>>

----------------------------------------------------------------------------
\* Strings and the inputs of a run.

Subjects == { <<"a", "b">>, <<"b">> }
Queries == { <<"a">>, <<"b">> }
\* "none": no private key; "ok": key usable without UI; "ui": the key
\* backend needs an interactive prompt, which the user grants or declines.
KeyKinds == { "none", "ok", "ui" }

SeqsUpTo(S, n) == UNION { [1..k -> S] : k \in 0..n }

Stores ==
    { s \in SeqsUpTo([subject : Subjects, kind : KeyKinds], MaxCerts) : TRUE }

Flags == [silent : BOOLEAN, pfx_file : {<<>>, <<"f.pfx">>}, pin : {<<>>, <<"1234">>}]

EncodeArgs ==
    { [command |-> "encode", silent |-> f.silent, pfx_file |-> f.pfx_file,
       pin |-> f.pin, signer |-> s, recipients |-> r, recipient |-> <<>>] :
        f \in Flags, s \in Queries,
        r \in (SeqsUpTo(Queries, MaxRcpts) \ {<<>>}) }

DecodeArgs ==
    { [command |-> "decode", silent |-> f.silent, pfx_file |-> f.pfx_file,
       pin |-> f.pin, signer |-> <<>>, recipients |-> <<>>, recipient |-> q] :
        f \in Flags, q \in Queries }

\* s contains q as a contiguous substring.
Contains(s, q) ==
    \E i \in 0..(Len(s) - Len(q)) : SubSeq(s, i + 1, i + Len(q)) = q

RECURSIVE FilterIdx(_, _, _)
FilterIdx(store, q, i) ==
    IF i > Len(store) THEN <<>>
    ELSE (IF Contains(store[i].subject, q)
          THEN << [id |-> i, subject |-> store[i].subject, key |-> <<>>] >>
          ELSE <<>>) \o FilterIdx(store, q, i + 1)

\* store.find_cert_by_subject_str(q): every matching certificate, in
\* store-enumeration order, none of them carrying a key yet.
find_cert_by_subject_str(store, q) == FilterIdx(store, q, 1)

Range(s) == { s[i] : i \in 1..Len(s) }
Ids(s) == [i \in 1..Len(s) |-> s[i].id]

----------------------------------------------------------------------------
\* Outcomes of main().

Running == [status |-> "running", kind |-> "", what |-> "", query |-> <<>>]
Ok == [status |-> "ok", kind |-> "", what |-> "", query |-> <<>>]
Err(kind) == [status |-> "err", kind |-> kind, what |-> "", query |-> <<>>]
Panic == [status |-> "panic", kind |-> "unwrap", what |-> "", query |-> <<>>]

\* Variant: the message does not carry the query string.
NotFoundError_NoQuery(what, query) ==
    [status |-> "err", kind |-> "Other", what |-> what, query |-> <<>>]

\* io::Error::new(Other, format!("Cannot find {what} certificate for {}", query))
NotFoundError(what, query) ==
    [status |-> "err", kind |-> "Other", what |-> what, query |-> query]

Init ==
    /\ args \in EncodeArgs \cup DecodeArgs
    /\ certs \in Stores
    /\ pc = "read_source"
    /\ storeState = "unopened"
    /\ opens = 0
    /\ closes = 0
    /\ candidates = <<>>
    /\ idx = 0
    /\ attempts = <<>>
    /\ found = <<>>
    /\ recipients = <<>>
    /\ rcptIdx = 0
    /\ key = <<>>
    /\ pinCalls = <<>>
    /\ pipeline = <<>>
    /\ data = <<>>
    /\ writes = <<>>
    /\ live = {}
    /\ result = Running

\* `?` / `return Err(..)` / a panic: main() is left with outcome r; the
\* locals are then dropped in reverse declaration order.
Leave(r) ==
    /\ result' = r
    /\ pc' = "drop_locals"

----------------------------------------------------------------------------
\* Key resolution.

\* cert.acquire_key(silent) on a &mut CertContext: on success the handle
\* is stored in the certificate itself; grant is the user's answer to the
\* prompt a "ui" key raises when the call is not silent.
acquire_key(cert, silent, grant) ==
    LET kind == certs[cert.id].kind
        ok == (kind = "ok") \/ (kind = "ui" /\ ~silent /\ grant)
    IN [ok |-> ok,
        prompted |-> (kind = "ui" /\ ~silent),
        cert |-> IF ok THEN [cert EXCEPT !.key = << [owner |-> cert.id] >>]
                       ELSE cert]

\* Variant: the clone is taken before the acquisition, so it has no key.
FindMapClosure_CloneFirst(cert, silent, grant) ==
    LET r == acquire_key(cert, silent, grant)
    IN IF r.ok THEN << cert >> ELSE <<>>

\* The closure of find_map: cert.acquire_key(silent).map(|_| cert.clone()).ok()
\* The clone is taken after the acquisition, so it carries the key.
FindMapClosure(cert, silent, grant) ==
    LET r == acquire_key(cert, silent, grant)
    IN IF r.ok THEN << r.cert >> ELSE <<>>

\* Variant: the iteration runs to the end (filter_map(..).last()).
FindMapContinues_ToEnd(res) == TRUE

\* find_map stops at the first Some the closure returns.
FindMapContinues(res) == res = <<>>

\* Variant: the acquisition is always interactive.
SilentArg_Interactive == FALSE

\* The silent argument main() hands to get_cert_with_key.
SilentArg == args.silent

\* Where main() continues once get_cert_with_key returned Some.
AfterAcquire == IF args.command = "encode" THEN "rcpt_loop" ELSE "get_key"

\* What the identity being resolved is called in the error message.
Role == IF args.command = "encode" THEN "signer" ELSE "recipient"
IdentityQuery == IF args.command = "encode" THEN args.signer ELSE args.recipient

----------------------------------------------------------------------------
\* main(), statement by statement.

\* lines 123-131: map the input file or read stdin to the end.
ReadSource ==
    /\ pc = "read_source"
    /\ \E ok \in BOOLEAN :
         IF ok THEN pc' = "open_store" /\ result' = result
               ELSE Leave(Err("Io"))
    /\ UNCHANGED <<args, certs, storeState, opens, closes, candidates, idx,
                   attempts, found, recipients, rcptIdx, key, pinCalls,
                   pipeline, data, writes, live>>

\* lines 133-142: fs::read(path)? then CertStore::from_pkcs12(pfx, pin or
\* "")?, or CertStore::open(store_type, "my")?.
OpenStore ==
    /\ pc = "open_store"
    /\ \E outcome \in (IF args.pfx_file # <<>> THEN {"ok", "Io", "Pfx"}
                                               ELSE {"ok", "StoreOpen"}) :
         IF outcome = "ok"
         THEN /\ storeState' = "open"
              /\ opens' = opens + 1
              /\ pc' = "find"
              /\ result' = result
         ELSE /\ Leave(Err(outcome))
              /\ UNCHANGED <<storeState, opens>>
    /\ UNCHANGED <<args, certs, closes, candidates, idx, attempts, found,
                   recipients, rcptIdx, key, pinCalls, pipeline, data, writes,
                   live>>

\* line 146 / line 189: store.find_cert_by_subject_str(query)?
FindCandidates ==
    /\ pc = "find"
    /\ \E ok \in BOOLEAN :
         IF ok
         THEN LET cs == find_cert_by_subject_str(certs, IdentityQuery)
              IN /\ candidates' = cs
                 /\ live' = live \cup Range(Ids(cs))
                 /\ idx' = 1
                 /\ pc' = "acquire"
                 /\ result' = result
         ELSE /\ Leave(Err("Find"))
              /\ UNCHANGED <<candidates, live, idx>>
    /\ UNCHANGED <<args, certs, storeState, opens, closes, attempts, found,
                   recipients, rcptIdx, key, pinCalls, pipeline, data, writes>>

\* lines 112-116: one step of find_map over certs.iter_mut(): the closure
\* runs on the next candidate; the first Some ends the iteration.
GetCertStep ==
    /\ pc = "acquire"
    /\ idx <= Len(candidates)
    /\ \E grant \in BOOLEAN :
         LET c == candidates[idx]
             r == acquire_key(c, SilentArg, grant)
             res == FindMapClosure(c, SilentArg, grant)
         IN /\ attempts' = Append(attempts,
                 [id |-> c.id, pos |-> idx, silent |-> SilentArg,
                  prompted |-> r.prompted, ok |-> r.ok,
                  storeOpen |-> (storeState = "open")])
            /\ candidates' = [candidates EXCEPT ![idx] = r.cert]
            /\ found' = IF res # <<>> THEN res ELSE found
            /\ pc' = IF FindMapContinues(res) THEN "acquire" ELSE AfterAcquire
    /\ idx' = idx + 1
    /\ rcptIdx' = 1
    /\ UNCHANGED <<args, certs, storeState, opens, closes, recipients, key,
                   pinCalls, pipeline, data, writes, live, result>>

\* lines 112-116, 181-186, 212-217: the iterator is exhausted, so
\* get_cert_with_key returns None and main() returns the error.
GetCertNone ==
    /\ pc = "acquire"
    /\ idx > Len(candidates)
    /\ Leave(NotFoundError(Role, IdentityQuery))
    /\ UNCHANGED <<args, certs, storeState, opens, closes, candidates, idx,
                   attempts, found, recipients, rcptIdx, key, pinCalls,
                   pipeline, data, writes, live>>

\* Variant: a certificate already in the set is not added again.
ExtendRecipients_Dedup(acc, matched) ==
    acc \o SelectSeq(matched, LAMBDA c : \A i \in 1..Len(acc) : acc[i].id # c.id)

\* line 153: recipients.extend(found.into_iter())
ExtendRecipients(acc, matched) == acc \o matched

\* lines 151-155: one iteration of `for rcpt in &cmd.recipients`.
RecipientLoop ==
    /\ pc = "rcpt_loop"
    /\ rcptIdx <= Len(args.recipients)
    /\ \E ok \in BOOLEAN :
         IF ok
         THEN LET cs == find_cert_by_subject_str(certs, args.recipients[rcptIdx])
              IN /\ recipients' = ExtendRecipients(recipients, cs)
                 /\ live' = live \cup Range(Ids(cs))
                 /\ rcptIdx' = rcptIdx + 1
                 /\ pc' = IF rcptIdx = Len(args.recipients)
                          THEN "get_key" ELSE "rcpt_loop"
                 /\ result' = result
         ELSE /\ Leave(Err("Find"))
              /\ UNCHANGED <<recipients, live, rcptIdx>>
    /\ UNCHANGED <<args, certs, storeState, opens, closes, candidates, idx,
                   attempts, found, key, pinCalls, pipeline, data, writes>>

\* lines 157-160 / 193-196: key().unwrap(), get_provider_name()?, get_name()?
GetKey ==
    /\ pc = "get_key"
    /\ IF found[1].key = <<>>
       THEN Leave(Panic) /\ key' = key
       ELSE \E ok \in BOOLEAN :
              IF ok THEN key' = found[1].key /\ pc' = "set_pin" /\ result' = result
                    ELSE Leave(Err("KeyInfo")) /\ key' = key
    /\ UNCHANGED <<args, certs, storeState, opens, closes, candidates, idx,
                   attempts, found, recipients, rcptIdx, pinCalls, pipeline,
                   data, writes, live>>

\* Variant: the PIN is applied whenever one was given.
PinApplies_IgnoresPfx == args.pin # <<>>

\* lines 162-163 / 198-199: the PIN is applied only without a PFX file.
PinApplies == args.pfx_file = <<>> /\ args.pin # <<>>

\* lines 162-167 / 198-203: key.set_pin(&pin)?
SetPin ==
    /\ pc = "set_pin"
    /\ IF PinApplies
       THEN /\ pinCalls' = Append(pinCalls,
                 [key |-> key[1].owner, pin |-> args.pin[1],
                  storeOpen |-> (storeState = "open"),
                  beforePipeline |-> (pipeline = <<>>)])
            /\ \E ok \in BOOLEAN :
                 IF ok THEN pc' = "transform" /\ result' = result
                       ELSE Leave(Err("Pin"))
       ELSE /\ pinCalls' = pinCalls
            /\ pc' = "transform"
            /\ result' = result
    /\ UNCHANGED <<args, certs, storeState, opens, closes, candidates, idx,
                   attempts, found, recipients, rcptIdx, key, pipeline, data,
                   writes, live>>

\* lines 169-172: CmsContent::builder().signer(..).recipients(..).build();
\* the value is used directly, so build() cannot report an error.
Build(signer, rcpts) == [signer |-> signer, recipients |-> rcpts]

\* Variant: the error of sign_and_encrypt is not propagated and whatever
\* was produced is written.
SignAndEncrypt_NoPropagate ==
    /\ pc = "transform"
    /\ args.command = "encode"
    /\ LET content == Build(found[1], recipients)
       IN \E ok \in BOOLEAN :
            /\ pipeline' = Append(pipeline,
                 [op |-> "sign_and_encrypt", signer |-> content.signer.id,
                  rcpts |-> Ids(content.recipients), ok |-> ok,
                  storeOpen |-> (storeState = "open")])
            /\ data' = << [kind |-> IF ok THEN "cms" ELSE "partial",
                           signer |-> content.signer.id,
                           rcpts |-> Ids(content.recipients)] >>
            /\ pc' = "write"
            /\ result' = result
    /\ UNCHANGED <<args, certs, storeState, opens, closes, candidates, idx,
                   attempts, found, recipients, rcptIdx, key, pinCalls, writes,
                   live>>

\* lines 169-174: content.sign_and_encrypt(&source)?
SignAndEncrypt ==
    /\ pc = "transform"
    /\ args.command = "encode"
    /\ LET content == Build(found[1], recipients)
       IN \E ok \in BOOLEAN :
            /\ pipeline' = Append(pipeline,
                 [op |-> "sign_and_encrypt", signer |-> content.signer.id,
                  rcpts |-> Ids(content.recipients), ok |-> ok,
                  storeOpen |-> (storeState = "open")])
            /\ IF ok
               THEN /\ data' = << [kind |-> "cms", signer |-> content.signer.id,
                                   rcpts |-> Ids(content.recipients)] >>
                    /\ pc' = "write"
                    /\ result' = result
               ELSE Leave(Err("Transform")) /\ data' = data
    /\ UNCHANGED <<args, certs, storeState, opens, closes, candidates, idx,
                   attempts, found, recipients, rcptIdx, key, pinCalls, writes,
                   live>>

\* line 205: CmsContent::decrypt_and_verify(&store, &source)?
DecryptAndVerify ==
    /\ pc = "transform"
    /\ args.command = "decode"
    /\ \E ok \in BOOLEAN :
      /\ pipeline' = Append(pipeline,
            [op |-> "decrypt_and_verify", signer |-> 0, rcpts |-> <<>>,
             ok |-> ok, storeOpen |-> (storeState = "open")])
      /\ IF ok
         THEN /\ data' = << [kind |-> "plain", signer |-> 0, rcpts |-> <<>>] >>
              /\ pc' = "write"
              /\ result' = result
         ELSE Leave(Err("Transform")) /\ data' = data
    /\ UNCHANGED <<args, certs, storeState, opens, closes, candidates, idx,
                   attempts, found, recipients, rcptIdx, key, pinCalls, writes,
                   live>>

\* lines 176-180 / 207-211: fs::write(output_file, &data)? or
\* io::stdout().write_all(&data)?, then Ok(()).
WriteOutput ==
    /\ pc = "write"
    /\ \E toFile \in BOOLEAN, ok \in BOOLEAN :
         /\ writes' = Append(writes,
                [dest |-> IF toFile THEN "file" ELSE "stdout",
                 data |-> data[1], ok |-> ok,
                 afterTransform |-> (data # <<>>)])
         /\ Leave(IF ok THEN Ok ELSE Err("Write"))
    /\ UNCHANGED <<args, certs, storeState, opens, closes, candidates, idx,
                   attempts, found, recipients, rcptIdx, key, pinCalls,
                   pipeline, data, live>>

\* End of main()'s scope: the certificate and key handles (signers,
\* signer, recipients, key, content) were declared after the store and
\* are dropped before it.
DropLocals ==
    /\ pc = "drop_locals"
    /\ live' = {}
    /\ pc' = "drop_store"
    /\ UNCHANGED <<args, certs, storeState, opens, closes, candidates, idx,
                   attempts, found, recipients, rcptIdx, key, pinCalls,
                   pipeline, data, writes, result>>

\* Variant: the store handle is leaked (never released).
DropStore_Leak ==
    /\ pc = "drop_store"
    /\ pc' = "done"
    /\ UNCHANGED <<args, certs, storeState, opens, closes, candidates, idx,
                   attempts, found, recipients, rcptIdx, key, pinCalls,
                   pipeline, data, writes, live, result>>

\* End of main()'s scope: `store` is dropped if it was ever bound.
DropStore ==
    /\ pc = "drop_store"
    /\ IF storeState = "open"
       THEN storeState' = "closed" /\ closes' = closes + 1
       ELSE UNCHANGED <<storeState, closes>>
    /\ pc' = "done"
    /\ UNCHANGED <<args, certs, opens, candidates, idx, attempts, found,
                   recipients, rcptIdx, key, pinCalls, pipeline, data, writes,
                   live, result>>

Next ==
    \/ ReadSource
    \/ OpenStore
    \/ FindCandidates
    \/ GetCertStep
    \/ GetCertNone
    \/ RecipientLoop
    \/ GetKey
    \/ SetPin
    \/ SignAndEncrypt
    \/ DecryptAndVerify
    \/ WriteOutput
    \/ DropLocals
    \/ DropStore

Spec == Init /\ [][Next]_vars

----------------------------------------------------------------------------
\* Properties.

Last(s) == s[Len(s)]
Unwinding == pc \in {"drop_locals", "drop_store", "done"}
\* get_cert_with_key was called and has returned.
AcquireReturned == idx >= 1 /\ pc # "acquire"
KindOf(i) == certs[candidates[i].id].kind
AllAttemptsFailed ==
    /\ Len(attempts) = Len(candidates)
    /\ \A i \in 1..Len(attempts) : ~attempts[i].ok
\* Candidate i is the only one with a usable key.
OnlyUsable(i) ==
    /\ KindOf(i) = "ok"
    /\ \A j \in 1..Len(candidates) : j # i => KindOf(j) = "none"
\* No candidate's key can be acquired in this run.
NoneUsable ==
    \A i \in 1..Len(candidates) :
        KindOf(i) = "none" \/ (KindOf(i) = "ui" /\ args.silent)

\* C1: get_cert_with_key attempts the candidates in sequence order, each at
\* most once, returns the first candidate whose acquisition succeeds and
\* attempts none after it; when exactly one candidate has a usable key it
\* is the result whatever its position.
C1_FirstUsableInOrder ==
    /\ Len(attempts) <= Len(candidates)
    /\ \A i \in 1..Len(attempts) :
         attempts[i].pos = i /\ attempts[i].id = candidates[i].id
    /\ \A i \in 1..Len(attempts) : i < Len(attempts) => ~attempts[i].ok
    /\ (found # <<>>) <=> (attempts # <<>> /\ Last(attempts).ok)
    /\ found # <<>> => found[1].id = Last(attempts).id
    /\ (AcquireReturned /\ found = <<>>) => Len(attempts) = Len(candidates)
    /\ \A i \in 1..Len(candidates) :
         (AcquireReturned /\ OnlyUsable(i)) =>
             /\ found # <<>>
             /\ found[1].id = candidates[i].id
             /\ Len(attempts) = i

\* The only usable key is at the second position and was returned.
C1_Witness ==
    /\ AcquireReturned
    /\ Len(candidates) = 2
    /\ OnlyUsable(2)
    /\ found # <<>>
    /\ found[1].id = candidates[2].id

\* C2: when no candidate has a usable key (the empty sequence included)
\* get_cert_with_key returns None, and every acquisition attempt carries
\* the silent flag the user supplied, so no prompt is raised under silent.
C2_NoneUsableSilent ==
    /\ \A i \in 1..Len(attempts) : attempts[i].silent = args.silent
    /\ args.silent => \A i \in 1..Len(attempts) : ~attempts[i].prompted
    /\ (AcquireReturned /\ NoneUsable) =>
         /\ found = <<>>
         /\ AllAttemptsFailed

\* A silent run tried two candidates, one needing a prompt, and got None.
C2_Witness ==
    /\ args.silent
    /\ AcquireReturned
    /\ Len(attempts) = 2
    /\ \E i \in 1..2 : KindOf(i) = "ui"
    /\ found = <<>>

\* C3: in encode and decode alike, zero matches or no match with a usable
\* key end the run in the one failure that names the original query; the
\* pipeline operation is not invoked and the run does not succeed.
C3_NotFoundNamesQuery ==
    /\ (AcquireReturned /\ AllAttemptsFailed) =>
         /\ result.status = "err"
         /\ result.kind = "Other"
         /\ result.what = (IF args.command = "encode" THEN "signer"
                                                      ELSE "recipient")
         /\ result.query = (IF args.command = "encode" THEN args.signer
                                                       ELSE args.recipient)
         /\ result.query \in Queries
         /\ pipeline = <<>>
         /\ writes = <<>>
    /\ result.kind = "Other" => (AcquireReturned /\ AllAttemptsFailed)

\* Decode ended in the failure after trying a matching certificate.
C3_Witness ==
    /\ pc = "done"
    /\ args.command = "decode"
    /\ candidates # <<>>
    /\ result.kind = "Other"

\* A second case: encode with a signer query that matches nothing.
C3_WitnessZeroMatches ==
    /\ pc = "done"
    /\ args.command = "encode"
    /\ opens = 1
    /\ candidates = <<>>
    /\ result.kind = "Other"

\* C4: with a PFX path set_pin is never invoked, PIN given or not; it is
\* invoked only without a PFX path and with a PIN, once, on the acquired
\* key, before the pipeline operation.
C4_PinSkippedForPfx ==
    /\ args.pfx_file # <<>> => pinCalls = <<>>
    /\ pinCalls # <<>> => (args.pfx_file = <<>> /\ args.pin # <<>>)
    /\ Len(pinCalls) <= 1
    /\ \A i \in 1..Len(pinCalls) :
         /\ pinCalls[i].pin = args.pin[1]
         /\ pinCalls[i].beforePipeline
         /\ found # <<>>
         /\ pinCalls[i].key = found[1].id
    /\ (pipeline # <<>> /\ args.pfx_file = <<>> /\ args.pin # <<>>) =>
         Len(pinCalls) = 1

\* A PFX run with a password reached the pipeline without any set_pin.
C4_Witness ==
    /\ args.pfx_file # <<>>
    /\ args.pin # <<>>
    /\ pipeline # <<>>
    /\ pinCalls = <<>>

\* The indexes of the store's certificates matching q, ascending.
MatchIds(q) ==
    SelectSeq([i \in 1..Len(certs) |-> i],
              LAMBDA i : Contains(certs[i].subject, q))
MatchCount(q) ==
    Cardinality({ i \in 1..Len(certs) : Contains(certs[i].subject, q) })
RECURSIVE ConcatMatchIds(_)
ConcatMatchIds(qs) ==
    IF qs = <<>> THEN <<>> ELSE MatchIds(Head(qs)) \o ConcatMatchIds(Tail(qs))
RECURSIVE SumMatchCounts(_)
SumMatchCounts(qs) ==
    IF qs = <<>> THEN 0 ELSE MatchCount(Head(qs)) + SumMatchCounts(Tail(qs))

\* C5: the recipient set handed to the builder is the concatenation, in
\* query order and store order within a query, of every match of every
\* recipient query; nothing dropped, nothing deduplicated.
C5_RecipientsAllMatches ==
    /\ (args.command = "encode" /\ rcptIdx >= 1) =>
         Ids(recipients) =
             ConcatMatchIds(SubSeq(args.recipients, 1, rcptIdx - 1))
    /\ \A i \in 1..Len(pipeline) :
         pipeline[i].op = "sign_and_encrypt" =>
             /\ pipeline[i].rcpts = ConcatMatchIds(args.recipients)
             /\ Len(pipeline[i].rcpts) = SumMatchCounts(args.recipients)

\* Two queries, one matching two certificates and one matching one, gave
\* three recipients.
C5_Witness ==
    /\ pipeline # <<>>
    /\ pipeline[1].op = "sign_and_encrypt"
    /\ Len(args.recipients) = 2
    /\ MatchCount(args.recipients[1]) = 2
    /\ MatchCount(args.recipients[2]) = 1
    /\ Len(pipeline[1].rcpts) = 3

\* C6: build() fails with NoRecipients on an empty recipient set, so
\* sign_and_encrypt is never invoked with an empty recipient set.
C6_BuildRejectsEmptyRecipients ==
    \A i \in 1..Len(pipeline) :
        pipeline[i].op = "sign_and_encrypt" => pipeline[i].rcpts # <<>>

\* C7: output is written at most once and only after the transform
\* succeeded; a failure of any earlier step ends the run at once, with no
\* later step executed and nothing written.
C7_WriteOnlyAfterTransform ==
    /\ Len(writes) <= 1
    /\ writes # <<>> =>
         /\ Len(pipeline) = 1
         /\ pipeline[1].ok
         /\ data # <<>>
         /\ writes[1].data = data[1]
    /\ result.status = "err" => Unwinding
    /\ (result.status = "err" /\ result.kind # "Write") => writes = <<>>
    /\ result.kind = "Io" => (opens = 0 /\ attempts = <<>>)
    /\ result.kind \in {"Pfx", "StoreOpen"} => (opens = 0 /\ attempts = <<>>)
    /\ result.kind \in {"Find", "Other", "KeyInfo", "Pin"} => pipeline = <<>>
    /\ result.kind \in {"Find", "Other", "KeyInfo"} => pinCalls = <<>>
    /\ result.kind = "Transform" => (data = <<>> /\ ~Last(pipeline).ok)
    /\ result.status = "ok" => (writes # <<>> /\ writes[1].ok)

\* A run that failed in the transform itself finished without a write.
C7_Witness ==
    /\ pc = "done"
    /\ result.kind = "Transform"
    /\ pipeline # <<>>
    /\ writes = <<>>

\* C8: the store is opened at most once and, once opened, released exactly
\* once on every exit path, after the pipeline operation and after every
\* handle derived from it; every use of a derived handle finds it open.
C8_StoreReleasedOnce ==
    /\ opens <= 1
    /\ closes <= opens
    /\ (storeState = "open") <=> (opens = 1 /\ closes = 0)
    /\ closes = 1 => (pc = "done" /\ live = {})
    /\ pc = "done" => closes = opens
    /\ live # {} => storeState = "open"
    /\ pc \in {"find", "acquire", "rcpt_loop", "get_key", "set_pin",
               "transform", "write"} => storeState = "open"
    /\ \A i \in 1..Len(attempts) : attempts[i].storeOpen
    /\ \A i \in 1..Len(pinCalls) : pinCalls[i].storeOpen
    /\ \A i \in 1..Len(pipeline) : pipeline[i].storeOpen

\* The store was released once on an error path after the pipeline ran.
C8_Witness ==
    /\ pc = "done"
    /\ result.status = "err"
    /\ pipeline # <<>>
    /\ opens = 1
    /\ closes = 1

\* C10: the certificate get_cert_with_key returns carries the key acquired
\* for it, so key().unwrap() never panics, and the key used for the name
\* lookup and set_pin is that of the returned candidate.
C10_ReturnedCertCarriesKey ==
    /\ result.status # "panic"
    /\ found # <<>> =>
         /\ found[1].key = << [owner |-> found[1].id] >>
         /\ Last(attempts).ok
         /\ Last(attempts).id = found[1].id
         /\ found[1] = candidates[Len(attempts)]
    /\ key # <<>> => (found # <<>> /\ key = found[1].key)
    /\ \A i \in 1..Len(pinCalls) :
         found # <<>> /\ pinCalls[i].key = found[1].id

\* The second candidate's key was acquired after the first failed, and the
\* PIN was set on it.
C10_Witness ==
    /\ Len(attempts) = 2
    /\ ~attempts[1].ok
    /\ key # <<>>
    /\ key[1].owner = candidates[2].id
    /\ pinCalls # <<>>

====
